---- MODULE Spec2Model ----
(***************************************************************************)
(* Model of src/src/models/user.js: the six request handlers of class User *)
(* (auth, create, update, getAll, getOne, deleteOne) running over one      *)
(* table `user`.  Every `await` of a handler is a point where another      *)
(* handler may run, so each handler is a sequence of atomic steps, one per *)
(* segment between awaits; a statement sent with db.execute is atomic at   *)
(* the store.                                                              *)
(***************************************************************************)
EXTENDS Integers, Sequences, FiniteSets, TLC

(***************************************************************************)
(* Bounds of the model.                                                    *)
(***************************************************************************)
\* Number of requests the model starts in one behaviour.
MaxRequests == 3

\* The handler invocations that can be in flight at the same time: "r2" is
\* the one that starts while "r1" is in flight.
Reqs == {"r1", "r2"}

(***************************************************************************)
(* Strings as data.  A CPF is kept as a sequence of one-character strings, *)
(* so that stripping punctuation and the checksum are computed.            *)
(***************************************************************************)
DigitChars == {"0", "1", "2", "3", "4", "5", "6", "7", "8", "9"}

DigitVal(c) ==
    CASE c = "0" -> 0 [] c = "1" -> 1 [] c = "2" -> 2 [] c = "3" -> 3
      [] c = "4" -> 4 [] c = "5" -> 5 [] c = "6" -> 6 [] c = "7" -> 7
      [] c = "8" -> 8 [] c = "9" -> 9

IsDigit(c) == c \in DigitChars

\* cpf.replace(/[^\d]/g, '')
StripNonDigits(s) == SelectSeq(s, IsDigit)

\* const sanitizedCpf = cpf.replace(/[^\d]/g, '')
SanitizeCpfIdentity(s) == s

SanitizeCpf(s) == StripNonDigits(s)

\* Sum of d[i] * (w - i) for i in 1..n: the weighted sum of a check digit.
RECURSIVE WeightedSum(_, _, _)
WeightedSum(d, n, w) ==
    IF n = 0 THEN 0 ELSE DigitVal(d[n]) * (w - n) + WeightedSum(d, n - 1, w)

CheckDigit(sum) == LET r == (sum * 10) % 11 IN IF r = 10 THEN 0 ELSE r

\* Validator.isCPF on a string: strips the non-digits, wants 11 digits that are
\* not all the same, and both check digits right.
IsCPF(s) ==
    LET d == StripNonDigits(s) IN
    /\ Len(d) = 11
    /\ \E i \in 2..11 : d[i] # d[1]
    /\ DigitVal(d[10]) = CheckDigit(WeightedSum(d, 9, 11))
    /\ DigitVal(d[11]) = CheckDigit(WeightedSum(d, 10, 12))

\* The request values of the cpf field.
CpfA        == <<"5","2","9","9","8","2","2","4","7","2","5">>
CpfAPunct   == <<"5","2","9",".","9","8","2",".","2","4","7","-","2","5">>
CpfB        == <<"1","1","1","4","4","4","7","7","7","3","5">>
CpfTampered == <<"5","2","9","9","8","2","2","4","7","2","4">>
CpfRepeated == <<"1","1","1","1","1","1","1","1","1","1","1">>
CpfShort    == <<"1","2","3">>

\* A JSON value of the cpf field: a string, or a number (its decimal text in s).
Str(s) == [t |-> "string", s |-> s]
Num(s) == [t |-> "number", s |-> s]

CpfValues ==
    {Str(CpfA), Str(CpfAPunct), Str(CpfB), Str(CpfTampered), Str(CpfRepeated),
     Str(CpfShort), Str(<<>>), Num(CpfA)}

Emails == {"ana@x.com", "bob@x.com"}

ProfileFields ==
    {"name", "state", "city", "neighborhood", "street", "number", "phone", "birthdate"}

ProfA ==
    [name |-> "Ana", state |-> "SP", city |-> "Sao Paulo", neighborhood |-> "Centro",
     street |-> "Rua A", number |-> "10", phone |-> "1191", birthdate |-> "1990-01-01"]

ProfB ==
    [name |-> "Bia", state |-> "MS", city |-> "Corumba", neighborhood |-> "Norte",
     street |-> "Rua B", number |-> "20", phone |-> "6792", birthdate |-> "1985-05-05"]

\* A body with one required field empty.
ProfNoPhone == [ProfB EXCEPT !.phone = ""]

NoProf == [f \in ProfileFields |-> ""]

\* The string of a store-assigned id ('' + userId, String(user.id)) and the
\* integer the store reads from an id parameter of the path.
IdText == <<"1", "2", "3", "4", "5", "6", "7", "8", "9">>

ToStr(n) == IdText[n]

ParseId(s) == IF \E n \in 1..Len(IdText) : IdText[n] = s
              THEN CHOOSE n \in 1..Len(IdText) : IdText[n] = s
              ELSE 0

IdParams == {"1", "2"}

(***************************************************************************)
(* Password column values.  A digest keeps the plaintext it was made from  *)
(* and its salt; a plaintext stored as it is has kind "plain".             *)
(***************************************************************************)
Plain(p) == [kind |-> "plain", text |-> p, salt |-> 0]

NoHash == [kind |-> "none", text |-> "", salt |-> 0]

\* bcrypt.hash(password, 10), with the salt the call draws.
BcryptHash(p, salt) == [kind |-> "bcrypt", text |-> p, salt |-> salt]

\* bcrypt.compare(password, user.password)
BcryptCompare(p, h) == h.kind = "bcrypt" /\ h.text = p

\* jwt.sign({ id: String(user.id), email: user.email }, secret, { expiresIn: '1h' })
JwtSign(user) == [id |-> ToStr(user.id), email |-> user.email, expiresIn |-> "1h"]

(***************************************************************************)
(* Response texts, without their accents; the not-found text without the   *)
(* id it quotes.                                                           *)
(***************************************************************************)
MsgAuthMissing   == "Preencha ambos os campos."
MsgAuthInvalid   == "E-mail ou senha invalidos."
MsgAuthError     == "Um erro ocorreu durante a autenticacao."
MsgCreateMissing ==
    "Preencha todos os campos (name, email, password, cpf, state, city, neighborhood, street, number, phone, birthdate)."
MsgCpfInvalid    == "O CPF inserido e invalido."
MsgDuplicate     == "E-mail ou CPF ja cadastrados."
MsgCreated       == "Usuario cadastrado com sucesso."
MsgCreateError   == "Um erro ocorreu durante o cadastro do usuario."
MsgUpdateMissing ==
    "Preencha todos os campos obrigatorios (name, password, state, city, neighborhood, street, number, phone, birthdate)."
MsgNotFound      == "O usuario nao foi encontrado no banco de dados."
MsgUpdated       == "Usuario atualizado com sucesso."
MsgUpdateError   == "Um erro ocorreu durante a atualizacao do usuario."
MsgGetAllError   == "Erro ao buscar usuarios no banco de dados."
MsgGetOneError   == "Erro ao recuperar dados do usuario"
MsgDeleted       == "Usuario deletado com sucesso!"
MsgDeleteError   == "Erro ao deletar usuario."

\* err.stack of the exceptions: a unique column refusing an INSERT, and a call
\* that fails (the store unreachable, the hash failing, no signing secret).
ErrConstraint == "SQLITE_CONSTRAINT: UNIQUE constraint failed"
ErrCall       == "Error: the call failed"

(***************************************************************************)
(* The store: table `user`.                                                *)
(***************************************************************************)
\* SELECT * FROM user WHERE email = ?
SelectByEmail(tbl, email) == {u \in tbl : u.email = email}

\* SELECT * FROM user WHERE email = ? OR cpf = ?
SelectByEmailOrCpf(tbl, email, cpf) == {u \in tbl : u.email = email \/ u.cpf = cpf}

\* SELECT * FROM user WHERE id = ?
SelectById(tbl, id) == {u \in tbl : u.id = ParseId(id)}

\* result.rows[0]: rows come in id order.
FirstRow(S) == CHOOSE u \in S : \A v \in S : u.id <= v.id

\* The columns email and cpf of the schema are unique: an INSERT of a value
\* already there fails.
UniqueViolated(tbl, email, cpf) == \E u \in tbl : u.email = email \/ u.cpf = cpf

\* The positional arguments of the INSERT, with the id the store assigns.
NewRowSwapped(id, prof, email, hashedPassword, cpf) ==
    [id |-> id, name |-> prof.name, email |-> email, password |-> hashedPassword,
     cpf |-> cpf, state |-> prof.city, city |-> prof.state,
     neighborhood |-> prof.neighborhood, street |-> prof.street,
     number |-> prof.number, phone |-> prof.phone, birthdate |-> prof.birthdate]

NewRow(id, prof, email, hashedPassword, cpf) ==
    [id |-> id, name |-> prof.name, email |-> email, password |-> hashedPassword,
     cpf |-> cpf, state |-> prof.state, city |-> prof.city,
     neighborhood |-> prof.neighborhood, street |-> prof.street,
     number |-> prof.number, phone |-> prof.phone, birthdate |-> prof.birthdate]

\* UPDATE user SET name = ?, password = ?, state = ?, ... WHERE id = ?
SetColumns(u, prof, hashedPassword) ==
    [u EXCEPT !.name = prof.name, !.password = hashedPassword, !.state = prof.state,
              !.city = prof.city, !.neighborhood = prof.neighborhood,
              !.street = prof.street, !.number = prof.number, !.phone = prof.phone,
              !.birthdate = prof.birthdate]

UpdateRowsNoWhere(tbl, id, prof, hashedPassword) ==
    {SetColumns(u, prof, hashedPassword) : u \in tbl}

UpdateRowsUpsert(tbl, id, prof, hashedPassword) ==
    IF SelectById(tbl, id) = {}
    THEN tbl \cup {NewRow(ParseId(id), prof, "", hashedPassword, <<>>)}
    ELSE {IF u.id = ParseId(id) THEN SetColumns(u, prof, hashedPassword) ELSE u : u \in tbl}

UpdateRows(tbl, id, prof, hashedPassword) ==
    {IF u.id = ParseId(id) THEN SetColumns(u, prof, hashedPassword) ELSE u : u \in tbl}

\* DELETE FROM user WHERE id = ?
DeleteRowsNone(tbl, id) == tbl

DeleteRows(tbl, id) == {u \in tbl : u.id # ParseId(id)}

(***************************************************************************)
(* State.                                                                  *)
(***************************************************************************)
VARIABLES
    rows,      \* the rows of table user
    nextId,    \* the next value of the auto-increment primary key
    nextSalt,  \* the salt the next bcrypt.hash draws (every call a new one)
    started,   \* number of requests started
    pc,        \* per handler invocation: where it is
    op,        \* per handler invocation: which handler
    args,      \* per handler invocation: req.body and req.params
    local,     \* per handler invocation: its local variables
    resp,      \* per handler invocation: the response it has sent
    deleted    \* history: the ids whose deleteOne has been answered 200

vars == <<rows, nextId, nextSalt, started, pc, op, args, local, resp, deleted>>

NoArgs == [prof |-> NoProf, email |-> "", password |-> "", cpf |-> Str(<<>>), id |-> ""]

NoLocal == [user |-> {}, sanitizedCpf |-> <<>>, hashedPassword |-> NoHash]

NoResp ==
    [status |-> 0, message |-> "", error |-> "", token |-> {}, user |-> {}, id |-> ""]

Init ==
    /\ rows = {}
    /\ nextId = 1
    /\ nextSalt = 1
    /\ started = 0
    /\ pc = [r \in Reqs |-> "idle"]
    /\ op = [r \in Reqs |-> "none"]
    /\ args = [r \in Reqs |-> NoArgs]
    /\ local = [r \in Reqs |-> NoLocal]
    /\ resp = [r \in Reqs |-> NoResp]
    /\ deleted = {}

\* The invocation has returned (or has not been called): it has answered, or
\* an exception has left it.
Ended(r) == pc[r] \in {"idle", "done", "escaped"}

\* A handler invocation that is not running can take the next request; the
\* second one takes it when the first is in flight.
Free(r) == Ended(r) /\ (r = "r2" => ~Ended("r1"))

\* The routing layer calls handler o with the request a.
Begin(r, o, a) ==
    /\ Free(r)
    /\ started < MaxRequests
    /\ started' = started + 1
    /\ op' = [op EXCEPT ![r] = o]
    /\ args' = [args EXCEPT ![r] = a]

\* res.status(s).json({ message, token, user, user: { id } }); the handler
\* returns and its local variables are gone.
Send(r, s, m, token, user, id) ==
    /\ resp' = [resp EXCEPT ![r] =
                   [status |-> s, message |-> m, error |-> "", token |-> token,
                    user |-> user, id |-> id]]
    /\ pc' = [pc EXCEPT ![r] = "done"]
    /\ local' = [local EXCEPT ![r] = NoLocal]

\* The message of each handler's catch block.
CatchMessage(o) ==
    CASE o = "auth" -> MsgAuthError
      [] o = "create" -> MsgCreateError
      [] o = "update" -> MsgUpdateError
      [] o = "getAll" -> MsgGetAllError
      [] o = "getOne" -> MsgGetOneError
      [] o = "deleteOne" -> MsgDeleteError

\* The exception is not caught: it leaves the handler.
CatchNothing(r, err) ==
    /\ pc' = [pc EXCEPT ![r] = "escaped"]
    /\ resp' = [resp EXCEPT ![r] = NoResp]
    /\ local' = [local EXCEPT ![r] = NoLocal]

\* catch (err) { res.status(500).json({ message, error: err.stack }) }
Catch(r, err) ==
    /\ resp' = [resp EXCEPT ![r] = [NoResp EXCEPT !.status = 500,
                                                  !.message = CatchMessage(op[r]),
                                                  !.error = err]]
    /\ pc' = [pc EXCEPT ![r] = "done"]
    /\ local' = [local EXCEPT ![r] = NoLocal]

\* An exception thrown outside every try block: the handler's promise rejects
\* and no response is sent.
Escape(r) ==
    /\ pc' = [pc EXCEPT ![r] = "escaped"]
    /\ resp' = [resp EXCEPT ![r] = NoResp]
    /\ local' = [local EXCEPT ![r] = NoLocal]

\* The handler waits on its next call (await), its local variables being l.
Goto(r, at, l) ==
    /\ pc' = [pc EXCEPT ![r] = at]
    /\ resp' = [resp EXCEPT ![r] = NoResp]
    /\ local' = [local EXCEPT ![r] = l]

(***************************************************************************)
(* Requests.                                                               *)
(***************************************************************************)
Passwords == {"secret1", "secret2"}

Body(prof, email, password, cpf) ==
    [prof |-> prof, email |-> email, password |-> password, cpf |-> cpf, id |-> ""]

AuthRequests ==
    {Body(NoProf, "ana@x.com", p, Str(<<>>)) : p \in Passwords \cup {""}}
        \cup {Body(NoProf, "bob@x.com", "secret1", Str(<<>>))}

CreateRequests ==
    {Body(ProfA, e, "secret1", Str(c)) : e \in Emails, c \in {CpfA, CpfAPunct, CpfB}}
        \cup {Body(ProfA, "bob@x.com", "secret1", c) : c \in CpfValues}
        \cup {Body(ProfNoPhone, "bob@x.com", "secret1", Str(CpfB))}

UpdateRequests ==
    {[Body(ProfB, "", p, Str(<<>>)) EXCEPT !.id = i] : p \in {"", "secret2"}, i \in IdParams}
        \cup {[Body(ProfNoPhone, "", "", Str(<<>>)) EXCEPT !.id = "1"]}

IdRequests == {[NoArgs EXCEPT !.id = i] : i \in IdParams}

\* !name || !state || !city || ... : a required field of the body is missing.
MissingProfile(p) == \E f \in ProfileFields : p[f] = ""

\* !cpf
CpfMissing(c) == c.t = "string" /\ c.s = <<>>

(***************************************************************************)
(* auth                                                                    *)
(***************************************************************************)
\* const { email, password } = req.body; if (!email || !password) return 400
AuthStart(r) ==
    \E a \in AuthRequests :
        /\ Begin(r, "auth", a)
        /\ IF a.email = "" \/ a.password = ""
           THEN Send(r, 400, MsgAuthMissing, {}, {}, "")
           ELSE Goto(r, "auth_select", NoLocal)
        /\ UNCHANGED <<rows, nextId, nextSalt, deleted>>

\* SELECT by email; if (!user) return 400
AuthSelect(r) ==
    /\ pc[r] = "auth_select"
    /\ LET found == SelectByEmail(rows, args[r].email) IN
       IF found = {}
       THEN Send(r, 400, MsgAuthInvalid, {}, {}, "")
       ELSE Goto(r, "auth_compare", [local[r] EXCEPT !.user = {FirstRow(found)}])
    /\ UNCHANGED <<rows, nextId, nextSalt, started, op, args, deleted>>

\* const isPasswordValid = await bcrypt.compare(password, user.password)
IsPasswordValidAlways(password, user) == TRUE

IsPasswordValid(password, user) == BcryptCompare(password, user.password)

\* if (!isPasswordValid) return 400; token = jwt.sign(...); 200 { token, user }
AuthCompare(r) ==
    /\ pc[r] = "auth_compare"
    /\ LET user == FirstRow(local[r].user) IN
       IF ~IsPasswordValid(args[r].password, user)
       THEN Send(r, 400, MsgAuthInvalid, {}, {}, "")
       ELSE Send(r, 200, "", {JwtSign(user)}, {user}, "")
    /\ UNCHANGED <<rows, nextId, nextSalt, started, op, args, deleted>>

(***************************************************************************)
(* create                                                                  *)
(***************************************************************************)
\* Destructuring, the presence check, Validator.isCPF and the sanitizing of the
\* cpf: all before the try block.  A cpf that is a number has no replace
\* method: the validator rejects it, or the validator or line 72 throws.
CreateStart(r) ==
    \E a \in CreateRequests :
        /\ Begin(r, "create", a)
        /\ IF MissingProfile(a.prof) \/ a.email = "" \/ a.password = "" \/ CpfMissing(a.cpf)
           THEN Send(r, 400, MsgCreateMissing, {}, {}, "")
           ELSE IF a.cpf.t # "string"
           THEN Send(r, 400, MsgCpfInvalid, {}, {}, "") \/ Escape(r)
           ELSE IF ~IsCPF(a.cpf.s)
           THEN Send(r, 400, MsgCpfInvalid, {}, {}, "")
           ELSE Goto(r, "create_select",
                     [NoLocal EXCEPT !.sanitizedCpf = SanitizeCpf(a.cpf.s)])
        /\ UNCHANGED <<rows, nextId, nextSalt, deleted>>

\* The cpf the uniqueness SELECT is given: args: [email, cpf]
SelectCpfArg(r) == args[r].cpf.s

\* SELECT by email or cpf; if (existingUser.rows.length > 0) return 400
CreateSelect(r) ==
    /\ pc[r] = "create_select"
    /\ IF SelectByEmailOrCpf(rows, args[r].email, SelectCpfArg(r)) # {}
       THEN Send(r, 400, MsgDuplicate, {}, {}, "")
       ELSE Goto(r, "create_hash", local[r])
    /\ UNCHANGED <<rows, nextId, nextSalt, started, op, args, deleted>>

\* const hashedPassword = await bcrypt.hash(password, 10)
CreateHash(r) ==
    /\ pc[r] = "create_hash"
    /\ Goto(r, "create_insert",
            [local[r] EXCEPT !.hashedPassword = BcryptHash(args[r].password, nextSalt)])
    /\ nextSalt' = nextSalt + 1
    /\ UNCHANGED <<rows, nextId, started, op, args, deleted>>

\* INSERT; a unique column already holding the value makes db.execute throw,
\* which the catch block answers; else 201 with the new id as a string.
CreateInsert(r) ==
    /\ pc[r] = "create_insert"
    /\ IF UniqueViolated(rows, args[r].email, local[r].sanitizedCpf)
       THEN /\ Catch(r, ErrConstraint)
            /\ UNCHANGED <<rows, nextId>>
       ELSE /\ rows' = rows \cup {NewRow(nextId, args[r].prof, args[r].email,
                                         local[r].hashedPassword, local[r].sanitizedCpf)}
            /\ nextId' = nextId + 1
            /\ Send(r, 201, MsgCreated, {}, {}, ToStr(nextId))
    /\ UNCHANGED <<nextSalt, started, op, args, deleted>>

(***************************************************************************)
(* update                                                                  *)
(***************************************************************************)
\* Destructuring of req.params and req.body; 400 when a required field is missing
UpdateStart(r) ==
    \E a \in UpdateRequests :
        /\ Begin(r, "update", a)
        /\ IF MissingProfile(a.prof)
           THEN Send(r, 400, MsgUpdateMissing, {}, {}, "")
           ELSE Goto(r, "update_select", NoLocal)
        /\ UNCHANGED <<rows, nextId, nextSalt, deleted>>

\* SELECT by id; 404 when no row; hashedPassword = password ? await hash : user.password
UpdateSelect(r) ==
    /\ pc[r] = "update_select"
    /\ LET found == SelectById(rows, args[r].id) IN
       IF found = {}
       THEN Send(r, 404, MsgNotFound, {}, {}, "")
       ELSE IF args[r].password # ""
       THEN Goto(r, "update_hash", [local[r] EXCEPT !.user = {FirstRow(found)}])
       ELSE Goto(r, "update_write",
                 [local[r] EXCEPT !.user = {FirstRow(found)},
                                  !.hashedPassword = FirstRow(found).password])
    /\ UNCHANGED <<rows, nextId, nextSalt, started, op, args, deleted>>

\* await bcrypt.hash(password, 10)
UpdateHash(r) ==
    /\ pc[r] = "update_hash"
    /\ Goto(r, "update_write",
            [local[r] EXCEPT !.hashedPassword = BcryptHash(args[r].password, nextSalt)])
    /\ nextSalt' = nextSalt + 1
    /\ UNCHANGED <<rows, nextId, started, op, args, deleted>>

\* UPDATE ... WHERE id = ?; 200
UpdateWrite(r) ==
    /\ pc[r] = "update_write"
    /\ rows' = UpdateRows(rows, args[r].id, args[r].prof, local[r].hashedPassword)
    /\ Send(r, 200, MsgUpdated, {}, {}, "")
    /\ UNCHANGED <<nextId, nextSalt, started, op, args, deleted>>

(***************************************************************************)
(* getAll, getOne, deleteOne                                               *)
(***************************************************************************)
GetAllStart(r) ==
    /\ Begin(r, "getAll", NoArgs)
    /\ Goto(r, "getall_select", NoLocal)
    /\ UNCHANGED <<rows, nextId, nextSalt, deleted>>

\* SELECT * FROM user; 200 with the rows
GetAllSelect(r) ==
    /\ pc[r] = "getall_select"
    /\ Send(r, 200, "", {}, rows, "")
    /\ UNCHANGED <<rows, nextId, nextSalt, started, op, args, deleted>>

GetOneStart(r) ==
    \E a \in IdRequests :
        /\ Begin(r, "getOne", a)
        /\ Goto(r, "getone_select", NoLocal)
        /\ UNCHANGED <<rows, nextId, nextSalt, deleted>>

\* What getOne answers on a table: 404 when no row has the id, else 200 and
\* result.rows[0].
GetOneResult(tbl, id) ==
    LET found == SelectById(tbl, id) IN
    IF found = {} THEN [status |-> 404, message |-> MsgNotFound, user |-> {}]
    ELSE [status |-> 200, message |-> "", user |-> {FirstRow(found)}]

GetOneSelect(r) ==
    /\ pc[r] = "getone_select"
    /\ LET res == GetOneResult(rows, args[r].id) IN
       Send(r, res.status, res.message, {}, res.user, "")
    /\ UNCHANGED <<rows, nextId, nextSalt, started, op, args, deleted>>

DeleteStart(r) ==
    \E a \in IdRequests :
        /\ Begin(r, "deleteOne", a)
        /\ Goto(r, "delete_select", NoLocal)
        /\ UNCHANGED <<rows, nextId, nextSalt, deleted>>

\* SELECT by id; 404 when no row
DeleteSelect(r) ==
    /\ pc[r] = "delete_select"
    /\ LET found == SelectById(rows, args[r].id) IN
       IF found = {}
       THEN Send(r, 404, MsgNotFound, {}, {}, "")
       ELSE Goto(r, "delete_write", [local[r] EXCEPT !.user = {FirstRow(found)}])
    /\ UNCHANGED <<rows, nextId, nextSalt, started, op, args, deleted>>

\* DELETE FROM user WHERE id = ?; 200 with result.rows[0]
DeleteWrite(r) ==
    /\ pc[r] = "delete_write"
    /\ rows' = DeleteRows(rows, args[r].id)
    /\ Send(r, 200, MsgDeleted, {}, local[r].user, "")
    /\ deleted' = deleted \cup {ParseId(args[r].id)}
    /\ UNCHANGED <<nextId, nextSalt, started, op, args>>

(***************************************************************************)
(* Failures of the awaited calls.                                          *)
(***************************************************************************)
\* The steps that start with an awaited call inside the handler's try block:
\* db.execute, bcrypt.hash, bcrypt.compare (and jwt.sign after it).
TrySteps ==
    {"auth_select", "auth_compare", "create_select", "create_hash", "create_insert",
     "update_select", "update_hash", "update_write", "getall_select", "getone_select",
     "delete_select", "delete_write"}

\* The awaited call throws (the store is unreachable, the hash fails, the
\* signing secret is missing): the catch block of the handler answers.
Throw(r) ==
    /\ pc[r] \in TrySteps
    /\ Catch(r, ErrCall)
    /\ UNCHANGED <<rows, nextId, nextSalt, started, op, args, deleted>>

Next ==
    \E r \in Reqs :
        \/ AuthStart(r) \/ AuthSelect(r) \/ AuthCompare(r)
        \/ CreateStart(r) \/ CreateSelect(r) \/ CreateHash(r) \/ CreateInsert(r)
        \/ UpdateStart(r) \/ UpdateSelect(r) \/ UpdateHash(r) \/ UpdateWrite(r)
        \/ GetAllStart(r) \/ GetAllSelect(r)
        \/ GetOneStart(r) \/ GetOneSelect(r)
        \/ DeleteStart(r) \/ DeleteSelect(r) \/ DeleteWrite(r)
        \/ Throw(r)

Spec == Init /\ [][Next]_vars

(***************************************************************************)
(* Properties.                                                             *)
(***************************************************************************)
Ids(tbl) == {u.id : u \in tbl}

\* Invocation r takes a step.
Steps(r) == pc'[r] # pc[r] \/ resp'[r] # resp[r] \/ args'[r] # args[r]

Conflicts(tbl, a) ==
    \E u \in tbl : u.email = a.email \/ StripNonDigits(u.cpf) = StripNonDigits(a.cpf.s)

\* C2: a create whose email or national ID (with or without punctuation) is
\* that of a stored user is answered 400 'E-mail ou CPF ja cadastrados.' by its
\* uniqueness check (when the store call itself does not fail) and the rows
\* stay as they are.
C2_DuplicateAnswered400 ==
    [][\A r \in Reqs :
          (/\ pc[r] = "create_select"
           /\ Steps(r)
           /\ Conflicts(rows, args[r])
           /\ resp'[r].error # ErrCall)
          => /\ resp'[r].status = 400
             /\ resp'[r].message = MsgDuplicate
             /\ rows' = rows]_vars

\* Two create requests name the same email or the same national ID.
SameIdentity(a, b) ==
    a.email = b.email \/ StripNonDigits(a.cpf.s) = StripNonDigits(b.cpf.s)

\* The users that have the email or the national ID of request a.
Sharing(tbl, a) ==
    {u \in tbl : u.email = a.email \/ StripNonDigits(u.cpf) = StripNonDigits(a.cpf.s)}

\* The row that the create q was answered 201 for is stored.
Inserted(q) ==
    /\ op[q] = "create" /\ pc[q] = "done" /\ resp[q].status = 201
    /\ \E u \in rows : u.id = ParseId(resp[q].id) /\ u.email = args[q].email

\* Create r ran its uniqueness SELECT and saw no row, create q for the same
\* email or national ID has inserted since and been answered 201, and r is at
\* its INSERT.
CreateRace(r, q) ==
    /\ r # q
    /\ op[r] = "create" /\ pc[r] = "create_insert"
    /\ Inserted(q)
    /\ SameIdentity(args[r], args[q])

AuthRefused == [NoResp EXCEPT !.status = 400, !.message = MsgAuthInvalid]

\* C4: auth answers 200 only when its lookup found a stored user with the
\* email and the password verifies against that user's hash, the token then
\* carrying that user's id and email; and the 400 for an unknown email is the
\* same response as the 400 for a wrong password.
C4_AuthOnlyWithCredentials ==
    [][\A r \in Reqs :
          /\ (pc[r] = "auth_select" /\ pc'[r] = "auth_compare") =>
                /\ local'[r].user \subseteq rows
                /\ \A u \in local'[r].user : u.email = args[r].email
          /\ (pc[r] = "auth_select" /\ Steps(r) /\ SelectByEmail(rows, args[r].email) = {}
                /\ resp'[r].error = "") => resp'[r] = AuthRefused
          /\ (pc[r] = "auth_compare" /\ Steps(r) /\ resp'[r].error = "") =>
                LET u == FirstRow(local[r].user) IN
                IF BcryptCompare(args[r].password, u.password)
                THEN /\ resp'[r].status = 200
                     /\ resp'[r].token =
                            {[id |-> ToStr(u.id), email |-> u.email, expiresIn |-> "1h"]}
                     /\ resp'[r].user = {u}
                ELSE resp'[r] = AuthRefused
          /\ (op'[r] = "auth" /\ resp'[r].status = 200) => pc[r] = "auth_compare" \/ ~Steps(r)
      ]_vars

\* One auth has been answered 200 with a token, another 400 for a wrong
\* password of a stored user.
C4_Witness ==
    \E r, q \in Reqs :
        /\ op[r] = "auth" /\ resp[r].status = 200 /\ resp[r].token # {}
        /\ op[q] = "auth" /\ resp[q] = AuthRefused
        /\ SelectByEmail(rows, args[q].email) # {}

\* C5: a deleteOne answered 200 leaves no row with that id and removes no
\* other row; its response carries the row its SELECT read, which has the id,
\* email and national ID of the row removed; the id never comes back, and a
\* getOne on it afterwards is answered 404 (500 when its call fails), never 200.
C5_DeleteRemoves ==
    [][\A r \in Reqs :
          /\ (pc[r] = "delete_select" /\ pc'[r] = "delete_write") =>
                local'[r].user = SelectById(rows, args[r].id)
          /\ (pc[r] = "delete_write" /\ Steps(r) /\ resp'[r].status = 200) =>
                LET i == ParseId(args[r].id) IN
                /\ i \notin Ids(rows')
                /\ rows' \subseteq rows
                /\ \A u \in rows : u.id # i => u \in rows'
                /\ resp'[r].user = local[r].user
                /\ \A s \in resp'[r].user :
                      /\ s.id = i
                      /\ \A u \in rows : u.id = i => u.email = s.email /\ u.cpf = s.cpf
          /\ (pc[r] = "getone_select" /\ Steps(r) /\ ParseId(args[r].id) \in deleted) =>
                /\ resp'[r].status \in {404, 500}
                /\ resp'[r].error = "" => resp'[r].status = 404
          /\ deleted' \cap Ids(rows') = {}
      ]_vars

\* A getOne on an id has been answered 404 after a deleteOne on it was answered
\* 200 with the row.
C5_Witness ==
    \E r, q \in Reqs :
        /\ op[r] = "getOne" /\ resp[r].status = 404 /\ ParseId(args[r].id) \in deleted
        /\ op[q] = "deleteOne" /\ resp[q].status = 200 /\ resp[q].user # {}
        /\ args[q].id = args[r].id

UpdateSteps == {"update_select", "update_hash", "update_write"}

\* C6: an update on an id no stored user has is answered 404 by its lookup
\* (500 when the call fails), and no step of an update changes the rows while
\* no user with its id is stored: it never creates a row.
C6_UpdateMissingId ==
    [][\A r \in Reqs :
          (pc[r] \in UpdateSteps /\ Steps(r) /\ SelectById(rows, args[r].id) = {}) =>
              /\ rows' = rows
              /\ pc[r] = "update_select" =>
                    /\ resp'[r].status \in {404, 500}
                    /\ resp'[r].error = "" =>
                          resp'[r].status = 404 /\ resp'[r].message = MsgNotFound
      ]_vars

\* An update on an id that is not stored has been answered 404, with a user stored.
C6_Witness ==
    \E r \in Reqs :
        /\ op[r] = "update" /\ resp[r].status = 404
        /\ rows # {} /\ SelectById(rows, args[r].id) = {}

\* The record getOne returns for the id of a create answered 201 has the
\* submitted values, the national ID being cpf, and a password that is not the
\* submitted plaintext.
CreatedRecordMatches(tbl, a, id, cpf) ==
    LET g == GetOneResult(tbl, id) IN
    /\ g.status = 200
    /\ \A u \in g.user :
          /\ u.name = a.prof.name /\ u.email = a.email /\ u.cpf = cpf
          /\ u.state = a.prof.state /\ u.city = a.prof.city
          /\ u.neighborhood = a.prof.neighborhood /\ u.street = a.prof.street
          /\ u.number = a.prof.number /\ u.phone = a.prof.phone
          /\ u.birthdate = a.prof.birthdate
          /\ u.password # Plain(a.password)
          /\ BcryptCompare(a.password, u.password)

\* C7 as stated: right after a create is answered 201, getOne on the new id
\* returns the submitted fields, the national ID as it was submitted.
C7_RecordEqualsSubmitted ==
    [][\A r \in Reqs :
          (pc[r] = "create_insert" /\ resp'[r].status = 201) =>
              CreatedRecordMatches(rows', args[r], resp'[r].id, args[r].cpf.s)]_vars

\* C7 amended: the national ID of the record is the submitted one with the
\* non-digits removed; the other fields are as submitted.
C7_RecordEqualsNormalised ==
    [][\A r \in Reqs :
          (pc[r] = "create_insert" /\ resp'[r].status = 201) =>
              CreatedRecordMatches(rows', args[r], resp'[r].id,
                                   StripNonDigits(args[r].cpf.s))]_vars

\* A create with a punctuated national ID has been answered 201 and getOne
\* finds its record.
C7_Witness ==
    \E r \in Reqs :
        /\ op[r] = "create" /\ resp[r].status = 201
        /\ args[r].cpf.s = CpfAPunct
        /\ GetOneResult(rows, resp[r].id).status = 200

\* C8: a step of an update on id X leaves the set of stored ids, every row
\* with another id, and the id, email and national ID of row X as they are.
C8_UpdateFrame ==
    [][\A r \in Reqs :
          (op'[r] = "update" /\ Steps(r)) =>
              /\ Ids(rows') = Ids(rows)
              /\ Cardinality(rows') = Cardinality(rows)
              /\ \A u \in rows : u.id # ParseId(args'[r].id) => u \in rows'
              /\ \A u \in rows : \E v \in rows' :
                    v.id = u.id /\ v.email = u.email /\ v.cpf = u.cpf
      ]_vars

\* An update has been answered 200 and has changed its row, another row stored.
C8_Witness ==
    \E r \in Reqs :
        /\ op[r] = "update" /\ resp[r].status = 200
        /\ Cardinality(rows) = 2
        /\ \E u \in rows : u.id = ParseId(args[r].id) /\ u.name = ProfB.name
        /\ \E u \in rows : u.id # ParseId(args[r].id) /\ u.name = ProfA.name

\* C9: no exception leaves a handler, and a request whose handling raised an
\* exception is answered 500.
C9_AllCaught ==
    \A r \in Reqs :
        /\ pc[r] # "escaped"
        /\ resp[r].error # "" => resp[r].status = 500

\* C10: the UPDATE of an update that carries no password leaves the password
\* hash of its row as it is at that moment.
C10_PasswordKept ==
    [][\A r \in Reqs :
          (pc[r] = "update_write" /\ args[r].password = "" /\ resp'[r].status = 200) =>
              \A u \in rows : \A v \in rows' : v.id = u.id => v.password = u.password
      ]_vars

====
